---- MODULE Spec2Model ----
(***************************************************************************)
(* Model of pdf2png/tool.py: the path-prefixing helper prepend_base_path,  *)
(* the two workspace wrappers and the orchestration in main().             *)
(*                                                                         *)
(* A Python str is a sequence of one-character strings.  os.path is the    *)
(* POSIX flavour (os.sep = "/").                                           *)
(***************************************************************************)
EXTENDS Integers, Sequences, FiniteSets, TLC

\* ------------------------------------------------------------------ bounds
MaxPages == 2       \* pages of the input document: 0..MaxPages
MaxTokens == 3      \* PDF_FILE is a concatenation of at most MaxTokens tokens
MaxLen == 4         \* length of the candidate paths given to prepend_base_path
MaxBaseLen == 2     \* length of the base directory names
MaxRuns == 2        \* runs of the program against one workspace root

\* ----------------------------------------------------------------- strings
SEP == "/"
FILES == <<"f", "i", "l", "e", "s">>
SCRATCH == <<"s", "c", "r", "a", "t", "c", "h">>
DOT_PDF == <<".", "p", "d", "f">>
PAGE == <<"_", "p", "a", "g", "e", "_">>
DOT_PNG == <<".", "p", "n", "g">>
Digits == <<"0", "1", "2", "3", "4", "5", "6", "7", "8", "9">>

Tokens == {<<"a">>, DOT_PDF, <<".", "P", "D", "F">>, <<"/">>, FILES, <<".", ".">>}
PathChars == {"/", ".", "f", "x"}
NameChars == {"f", "x"}
WorkspaceDirs == {<<>>, <<"/", "w">>}

RECURSIVE Concats(_)
Concats(n) ==
    IF n = 0 THEN {<<>>}
    ELSE Concats(n - 1) \cup {s \o t : s \in Concats(n - 1), t \in Tokens}

FileNames == Concats(MaxTokens)
RunNames == {<<"a">>, <<"a">> \o DOT_PDF, FILES \o <<"/", "a">>, <<"/">>}
Paths == UNION {[1..k -> PathChars] : k \in 0..MaxLen}
BaseNames == UNION {[1..k -> NameChars] : k \in 1..MaxBaseLen}

\* ------------------------------------------------- str and os.path methods
startswith(s, prefix) ==
    Len(s) >= Len(prefix) /\ SubSeq(s, 1, Len(prefix)) = prefix

\* s.split(sep) for a one-character separator
RECURSIVE split(_, _)
split(s, sep) ==
    IF \E k \in 1..Len(s) : s[k] = sep
    THEN LET k == CHOOSE k \in 1..Len(s) :
                      s[k] = sep /\ \A j \in 1..(k - 1) : s[j] # sep
         IN <<SubSeq(s, 1, k - 1)>> \o split(SubSeq(s, k + 1, Len(s)), sep)
    ELSE <<s>>

\* sep.join(comps)
RECURSIVE sepjoin(_, _)
sepjoin(sep, comps) ==
    IF comps = <<>> THEN <<>>
    ELSE IF Len(comps) = 1 THEN comps[1]
    ELSE comps[1] \o <<sep>> \o sepjoin(sep, Tail(comps))

\* s.rsplit(sep, 1): split once at the last occurrence of sep
rsplit(s, sep) ==
    LET occ == {k \in 1..(Len(s) - Len(sep) + 1) :
                    SubSeq(s, k, k + Len(sep) - 1) = sep}
    IN IF occ = {} THEN <<s>>
       ELSE LET k == CHOOSE k \in occ : \A j \in occ : j <= k
            IN <<SubSeq(s, 1, k - 1), SubSeq(s, k + Len(sep), Len(s))>>

\* str(n) of a non-negative integer
RECURSIVE str(_)
str(n) ==
    IF n < 10 THEN <<Digits[n + 1]>>
    ELSE str(n \div 10) \o <<Digits[(n % 10) + 1]>>

\* the loop of posixpath.normpath over the components
RECURSIVE new_comps(_, _, _)
new_comps(comps, initial_slashes, acc) ==
    IF comps = <<>> THEN acc
    ELSE LET comp == Head(comps) IN
         IF comp \in {<<>>, <<".">>}
         THEN new_comps(Tail(comps), initial_slashes, acc)
         ELSE IF \/ comp # <<".", ".">>
                 \/ (initial_slashes = 0 /\ acc = <<>>)
                 \/ (acc # <<>> /\ acc[Len(acc)] = <<".", ".">>)
         THEN new_comps(Tail(comps), initial_slashes, Append(acc, comp))
         ELSE IF acc # <<>>
         THEN new_comps(Tail(comps), initial_slashes, SubSeq(acc, 1, Len(acc) - 1))
         ELSE new_comps(Tail(comps), initial_slashes, acc)

\* os.path.normpath
normpath(path) ==
    IF path = <<>> THEN <<".">>
    ELSE LET initial_slashes ==
                 IF ~startswith(path, <<SEP>>) THEN 0
                 ELSE IF startswith(path, <<SEP, SEP>>)
                         /\ ~startswith(path, <<SEP, SEP, SEP>>) THEN 2
                 ELSE 1
             comps == new_comps(split(path, SEP), initial_slashes, <<>>)
             p == [k \in 1..initial_slashes |-> SEP] \o sepjoin(SEP, comps)
         IN IF p = <<>> THEN <<".">> ELSE p

\* os.path.join(a, b)
join(a, b) ==
    IF startswith(b, <<SEP>>) THEN b
    ELSE IF a = <<>> \/ a[Len(a)] = SEP THEN a \o b
    ELSE a \o <<SEP>> \o b

\* os.path.basename
basename(p) ==
    LET occ == {k \in 1..Len(p) : p[k] = SEP}
    IN IF occ = {} THEN p
       ELSE LET k == CHOOSE k \in occ : \A j \in occ : j <= k
            IN SubSeq(p, k + 1, Len(p))

\* ---------------------------------------------------------- tool.py 24-59
file_parts(file_path) == split(normpath(file_path), SEP)

prepend_base_path_normalized(base_path, file_path) ==
    IF file_parts(file_path)[1] = base_path
    THEN normpath(file_path)
    ELSE join(base_path, file_path)

prepend_base_path_anywhere(base_path, file_path) ==
    IF \E k \in 1..Len(file_parts(file_path)) : file_parts(file_path)[k] = base_path
    THEN file_path
    ELSE join(base_path, file_path)

prepend_base_path(base_path, file_path) ==
    IF file_parts(file_path)[1] = base_path
    THEN file_path
    ELSE join(base_path, file_path)

\* the f-string of line 105
file_name_unindexed(base, page) == base \o PAGE \o DOT_PNG

file_name(base, page) == base \o PAGE \o str(page) \o DOT_PNG

\* line 68
local_path_full(dir, filepath) == join(dir, filepath)

local_path(dir, filepath) == join(dir, basename(filepath))

\* open(path, "wb") raises IsADirectoryError for a path naming a directory
IsDirectoryPath(path) == basename(path) \in {<<>>, <<".">>, <<".", ".">>}

\* ------------------------------------------------------------------- state
VARIABLES
    environ,              \* os.environ: the two variables the program reads
    pc,                   \* position of main()
    scratch_dir, pdf_file_name, base_name, local_pdf_file_path,
    images, i, generated_files,      \* locals of main()
    result,               \* what main() returned
    raised,               \* an exception left main()
    dirs, files,          \* local file system: directories and files
    wksp,                 \* workspace store: paths written
    inflight,             \* workspace calls awaited and not yet completed
    log,                  \* the I/O calls of this run, in order
    base_path, file_path, ret,       \* last call of prepend_base_path
    run                   \* number of the current run

locals == <<scratch_dir, pdf_file_name, base_name, local_pdf_file_path,
            images, i, generated_files>>
call == <<base_path, file_path, ret>>
vars == <<environ, pc, locals, result, raised, dirs, files, wksp, inflight,
          log, call, run>>

Unset == [set |-> FALSE, val |-> <<>>]
Value(s) == [set |-> TRUE, val |-> s]
NoResult == [returned |-> FALSE, images |-> <<>>]
Event(op, path) == [op |-> op, path |-> path]

Fresh ==
    /\ scratch_dir = <<>> /\ pdf_file_name = <<>> /\ base_name = <<>>
    /\ local_pdf_file_path = <<>>
    /\ images = <<>> /\ i = 0 /\ generated_files = <<>>
    /\ result = NoResult /\ raised = FALSE
    /\ inflight = 0 /\ log = <<>>
    /\ base_path = <<>> /\ file_path = <<>> /\ ret = <<>>

InitWith(names) ==
    /\ environ \in [GPTSCRIPT_WORKSPACE_DIR : {Unset} \cup {Value(d) : d \in WorkspaceDirs},
                    PDF_FILE : {Unset} \cup {Value(f) : f \in names}]
    /\ pc = "create_scratch_dir"
    /\ Fresh
    /\ dirs = {} /\ files = {} /\ wksp = {}
    /\ run = 1

Init == InitWith(FileNames)

Raise ==
    /\ raised' = TRUE
    /\ pc' = "aborted"

\* ------------------------------------------------------- tool.py 86-90, 94
CreateScratchDir ==
    /\ pc = "create_scratch_dir"
    /\ environ.GPTSCRIPT_WORKSPACE_DIR.set
    /\ LET path == join(environ.GPTSCRIPT_WORKSPACE_DIR.val, SCRATCH) IN
         /\ dirs' = dirs \cup {path}
         /\ scratch_dir' = path
         /\ log' = Append(log, Event("makedirs", path))
    /\ pc' = "getenv"
    /\ UNCHANGED <<environ, pdf_file_name, base_name, local_pdf_file_path,
                   images, i, generated_files, result, raised, files, wksp,
                   inflight, call, run>>

\* os.path.join(None, "scratch") raises TypeError
CreateScratchDirRaise ==
    /\ pc = "create_scratch_dir"
    /\ ~environ.GPTSCRIPT_WORKSPACE_DIR.set
    /\ Raise
    /\ UNCHANGED <<environ, locals, result, dirs, files, wksp, inflight, log,
                   call, run>>

\* ---------------------------------------------------------- tool.py 95-97
GetPdfFileName ==
    /\ pc = "getenv"
    /\ environ.PDF_FILE.set
    /\ pdf_file_name' = environ.PDF_FILE.val
    /\ base_name' = rsplit(environ.PDF_FILE.val, DOT_PDF)[1]
    /\ pc' = "copy"
    /\ UNCHANGED <<environ, scratch_dir, local_pdf_file_path, images, i,
                   generated_files, result, raised, dirs, files, wksp,
                   inflight, log, call, run>>

\* None.rsplit raises AttributeError
GetPdfFileNameRaise ==
    /\ pc = "getenv"
    /\ ~environ.PDF_FILE.set
    /\ Raise
    /\ UNCHANGED <<environ, locals, result, dirs, files, wksp, inflight, log,
                   call, run>>

\* ------------------------------------------------------ tool.py 62-72, 98
\* lines 63-65: the read is issued and main() is suspended
CopyStart ==
    /\ pc = "copy"
    /\ base_path' = FILES
    /\ file_path' = pdf_file_name
    /\ ret' = prepend_base_path(FILES, pdf_file_name)
    /\ inflight' = inflight + 1
    /\ log' = Append(log, Event("read", ret'))
    /\ pc' = "await_read"
    /\ UNCHANGED <<environ, locals, result, raised, dirs, files, wksp, run>>

\* the read fails: store unreachable or path not found
ReadRaise ==
    /\ pc = "await_read"
    /\ inflight' = inflight - 1
    /\ Raise
    /\ UNCHANGED <<environ, locals, result, dirs, files, wksp, log, call, run>>

\* lines 65-72: the read returns and the content is saved locally
CopyDone ==
    /\ pc = "await_read"
    /\ ~IsDirectoryPath(local_path(scratch_dir, pdf_file_name))
    /\ inflight' = inflight - 1
    /\ files' = files \cup {local_path(scratch_dir, pdf_file_name)}
    /\ local_pdf_file_path' = local_path(scratch_dir, pdf_file_name)
    /\ log' = Append(log, Event("open", local_path(scratch_dir, pdf_file_name)))
    /\ pc' = "convert"
    /\ UNCHANGED <<environ, scratch_dir, pdf_file_name, base_name, images, i,
                   generated_files, result, raised, dirs, wksp, call, run>>

\* line 69: open() fails (a directory, permissions); no file is created
OpenRaise ==
    /\ pc = "await_read"
    /\ inflight' = inflight - 1
    /\ Raise
    /\ UNCHANGED <<environ, locals, result, dirs, files, wksp, log, call, run>>

\* line 70: f.write() fails (disk full); the file exists, truncated
WriteRaise ==
    /\ pc = "await_read"
    /\ ~IsDirectoryPath(local_path(scratch_dir, pdf_file_name))
    /\ inflight' = inflight - 1
    /\ files' = files \cup {local_path(scratch_dir, pdf_file_name)}
    /\ log' = Append(log, Event("open", local_path(scratch_dir, pdf_file_name)))
    /\ Raise
    /\ UNCHANGED <<environ, locals, result, dirs, wksp, call, run>>

\* ------------------------------------------------- tool.py 10-21, 102-103
Convert ==
    /\ pc = "convert"
    /\ \E n \in 0..MaxPages : images' = [k \in 1..n |-> k - 1]
    /\ generated_files' = <<>>
    /\ i' = 0
    /\ log' = Append(log, Event("convert", local_pdf_file_path))
    /\ pc' = "loop"
    /\ UNCHANGED <<environ, scratch_dir, pdf_file_name, base_name,
                   local_pdf_file_path, result, raised, dirs, files, wksp,
                   inflight, call, run>>

\* fitz.open fails: not a valid PDF
ConvertRaise ==
    /\ pc = "convert"
    /\ Raise
    /\ UNCHANGED <<environ, locals, result, dirs, files, wksp, inflight, log,
                   call, run>>

\* ------------------------------------------------ tool.py 75-83, 104-112
SaveStartDetached ==
    /\ pc = "loop"
    /\ i < Len(images)
    /\ base_path' = FILES
    /\ file_path' = file_name(base_name, images[i + 1])
    /\ ret' = prepend_base_path(FILES, file_name(base_name, images[i + 1]))
    /\ inflight' = inflight + 1
    /\ log' = Append(log, Event("write", ret'))
    /\ i' = i + 1
    /\ pc' = "loop"
    /\ UNCHANGED <<environ, scratch_dir, pdf_file_name, base_name,
                   local_pdf_file_path, images, generated_files, result,
                   raised, dirs, files, wksp, run>>

\* lines 105-111, 76-83: the write of page i is issued, main() is suspended
SaveStart ==
    /\ pc = "loop"
    /\ i < Len(images)
    /\ base_path' = FILES
    /\ file_path' = file_name(base_name, images[i + 1])
    /\ ret' = prepend_base_path(FILES, file_name(base_name, images[i + 1]))
    /\ inflight' = inflight + 1
    /\ log' = Append(log, Event("write", ret'))
    /\ pc' = "await_write"
    /\ UNCHANGED <<environ, locals, result, raised, dirs, files, wksp, run>>

SaveRaiseSwallowed ==
    /\ pc = "await_write"
    /\ inflight' = inflight - 1
    /\ raised' = TRUE
    /\ i' = i + 1
    /\ pc' = "loop"
    /\ UNCHANGED <<environ, scratch_dir, pdf_file_name, base_name,
                   local_pdf_file_path, images, generated_files, result, dirs,
                   files, wksp, log, call, run>>

\* the write fails: store unreachable or write rejected
SaveRaise ==
    /\ pc = "await_write"
    /\ inflight' = inflight - 1
    /\ Raise
    /\ UNCHANGED <<environ, locals, result, dirs, files, wksp, log, call, run>>

SaveDonePrepend ==
    /\ pc = "await_write"
    /\ inflight' = inflight - 1
    /\ wksp' = wksp \cup {ret}
    /\ log' = Append(log, Event("write_ok", ret))
    /\ generated_files' = <<file_name(base_name, images[i + 1])>> \o generated_files
    /\ i' = i + 1
    /\ pc' = "loop"
    /\ UNCHANGED <<environ, scratch_dir, pdf_file_name, base_name,
                   local_pdf_file_path, images, result, raised, dirs, files,
                   call, run>>

\* lines 83, 112: the write returns and the name is appended
SaveDone ==
    /\ pc = "await_write"
    /\ inflight' = inflight - 1
    /\ wksp' = wksp \cup {ret}
    /\ log' = Append(log, Event("write_ok", ret))
    /\ generated_files' = Append(generated_files, file_name(base_name, images[i + 1]))
    /\ i' = i + 1
    /\ pc' = "loop"
    /\ UNCHANGED <<environ, scratch_dir, pdf_file_name, base_name,
                   local_pdf_file_path, images, result, raised, dirs, files,
                   call, run>>

\* ------------------------------------------------------------ tool.py 114
Return ==
    /\ pc = "loop"
    /\ i = Len(images)
    /\ result' = [returned |-> TRUE, images |-> generated_files]
    /\ pc' = "done"
    /\ UNCHANGED <<environ, locals, raised, dirs, files, wksp, inflight, log,
                   call, run>>

Next ==
    \/ CreateScratchDir \/ CreateScratchDirRaise
    \/ GetPdfFileName \/ GetPdfFileNameRaise
    \/ CopyStart \/ ReadRaise \/ CopyDone \/ OpenRaise \/ WriteRaise
    \/ Convert \/ ConvertRaise
    \/ SaveStart \/ SaveRaise \/ SaveDone
    \/ Return

Spec == Init /\ [][Next]_vars

\* ---------------------------------------------------- further runs of main
\* the program is started again with another PDF_FILE; the local disk and
\* the workspace store keep what earlier runs left
NewRun ==
    /\ pc \in {"done", "aborted"}
    /\ run < MaxRuns
    /\ run' = run + 1
    /\ \E f \in RunNames :
         environ' = [environ EXCEPT !.PDF_FILE = Value(f)]
    /\ pc' = "create_scratch_dir"
    /\ scratch_dir' = <<>> /\ pdf_file_name' = <<>> /\ base_name' = <<>>
    /\ local_pdf_file_path' = <<>>
    /\ images' = <<>> /\ i' = 0 /\ generated_files' = <<>>
    /\ result' = NoResult /\ raised' = FALSE
    /\ inflight' = 0 /\ log' = <<>>
    /\ base_path' = <<>> /\ file_path' = <<>> /\ ret' = <<>>
    /\ UNCHANGED <<dirs, files, wksp>>

InitRuns == InitWith(RunNames)

NextRuns == Next \/ NewRun

SpecRuns == InitRuns /\ [][NextRuns]_vars

\* ------------------------------------- prepend_base_path on its own (24-59)
InitPath ==
    /\ environ = [GPTSCRIPT_WORKSPACE_DIR |-> Unset, PDF_FILE |-> Unset]
    /\ pc = "call"
    /\ scratch_dir = <<>> /\ pdf_file_name = <<>> /\ base_name = <<>>
    /\ local_pdf_file_path = <<>>
    /\ images = <<>> /\ i = 0 /\ generated_files = <<>>
    /\ result = NoResult /\ raised = FALSE
    /\ inflight = 0 /\ log = <<>>
    /\ dirs = {} /\ files = {} /\ wksp = {}
    /\ run = 1
    /\ base_path \in BaseNames
    /\ file_path \in Paths
    /\ ret = <<>>

\* prepend_base_path(base_path, file_path)
PathCall ==
    /\ pc = "call"
    /\ ret' = prepend_base_path(base_path, file_path)
    /\ log' = Append(log, Event("prepend_base_path", file_path))
    /\ pc' = "called"
    /\ UNCHANGED <<environ, locals, result, raised, dirs, files, wksp,
                   inflight, base_path, file_path, run>>

\* prepend_base_path(base_path, ret): the function applied to its own result
PathCallAgain ==
    /\ pc = "called"
    /\ file_path' = ret
    /\ ret' = prepend_base_path(base_path, ret)
    /\ log' = Append(log, Event("prepend_base_path", ret))
    /\ pc' = "called_twice"
    /\ UNCHANGED <<environ, locals, result, raised, dirs, files, wksp,
                   inflight, base_path, run>>

NextPath == PathCall \/ PathCallAgain

SpecPath == InitPath /\ [][NextPath]_vars

\* =================================================================== claims

\* C1: for every base name B and every path P, prepend_base_path(B, P) is
\* rooted under B: the first segment of the normalized result equals B.
C1_ResultRootedUnderBase ==
    pc \in {"called", "called_twice"} =>
        split(normpath(ret), SEP)[1] = base_path

\* C2: base_name is PDF_FILE with one trailing ".pdf" stripped, and it is
\* PDF_FILE unchanged for every name that does not end in ".pdf".
C2_TrailingSuffixStripped ==
    pc \in {"copy", "await_read", "convert", "loop", "await_write", "done"} =>
        LET n == Len(pdf_file_name) IN
        IF n >= 4 /\ SubSeq(pdf_file_name, n - 3, n) = <<".", "p", "d", "f">>
        THEN base_name = SubSeq(pdf_file_name, 1, n - 4)
        ELSE base_name = pdf_file_name

\* C3: the list built so far is base_name_page_0.png, base_name_page_1.png,
\* ... in page order and equals the names already written, each written at
\* prepend_base_path("files", name); a run that returns has written one file
\* per page and returns that list (empty for a document of zero pages).
C3_ImagesListMatchesWrites ==
    LET Done(e) == e.op = "write_ok"
        Issued(e) == e.op = "write"
        written == SelectSeq(log, Done)
        n == Len(generated_files)
    IN /\ generated_files = [j \in 1..n |-> base_name \o PAGE \o str(j - 1) \o DOT_PNG]
       /\ Len(written) = n
       /\ \A j \in 1..n :
              written[j].path = prepend_base_path(FILES, generated_files[j])
       /\ pc = "done" =>
              /\ result.returned
              /\ result.images = generated_files
              /\ n = Len(images)
              /\ Len(SelectSeq(log, Issued)) = n

C3_Witness ==
    /\ pc = "done"
    /\ Len(result.images) >= 2
    /\ Cardinality(wksp) >= 2

\* C4: a failure aborts the run: once a step has failed no later step runs,
\* nothing is retried, no result is returned and the workspace files written
\* for the earlier pages stay in place.
C4_AbortOnFirstFailure ==
    /\ [](raised =>
            /\ pc = "aborted"
            /\ ~result.returned
            /\ inflight = 0
            /\ \A j \in 1..Len(generated_files) :
                   prepend_base_path(FILES, generated_files[j]) \in wksp)
    /\ [][raised => UNCHANGED <<pc, result, log, wksp, files, dirs,
                                generated_files, i, raised>>]_vars

C4_Witness ==
    /\ raised
    /\ Len(generated_files) >= 1
    /\ log[Len(log)].op = "write"
    /\ Cardinality(wksp) = Len(generated_files)

\* C5: if GPTSCRIPT_WORKSPACE_DIR or PDF_FILE is missing or empty, the run
\* aborts and returns no result.
C5_EnvironmentRequired ==
    (\E v \in {"GPTSCRIPT_WORKSPACE_DIR", "PDF_FILE"} :
         ~environ[v].set \/ environ[v].val = <<>>)
        => (pc # "done" /\ ~result.returned)

\* C6: for a path P whose normalized first segment is B,
\* prepend_base_path(B, prepend_base_path(B, P)) = prepend_base_path(B, P) = P.
C6_IdempotentWhenRooted ==
    /\ (pc = "called" /\ split(normpath(log[1].path), SEP)[1] = base_path)
           => ret = log[1].path
    /\ (pc = "called_twice" /\ split(normpath(log[1].path), SEP)[1] = base_path)
           => (ret = log[2].path /\ log[2].path = log[1].path)

C6_Witness ==
    /\ pc = "called_twice"
    /\ split(normpath(log[1].path), SEP)[1] = base_path
    /\ normpath(log[1].path) # log[1].path
    /\ ret = log[1].path

\* C7 as claimed: from the moment the input is downloaded the scratch
\* directory holds exactly one file, the input under its base name, also in a
\* run that follows earlier runs with other input names.
C7_ExactlyOneScratchFile ==
    pc \in {"convert", "loop", "await_write", "done"} =>
        {f \in files : f = join(scratch_dir, basename(f))}
            = {join(scratch_dir, basename(pdf_file_name))}

\* C7 as amended: a run adds at most one file to the scratch directory, the
\* downloaded input under the base name of the input path, directly in the
\* scratch directory, and no file is ever removed; once the download is
\* stored the file is there, next to the files earlier runs left, so run k
\* finds at most k files.
C7_ScratchOnlyGrows ==
    /\ [](/\ pc \in {"convert", "loop", "await_write", "done"} =>
                join(scratch_dir, basename(pdf_file_name)) \in files
          /\ Cardinality(files) <= run
          /\ \A f \in files :
                 \E d \in dirs : f = join(d, basename(f)) /\ basename(f) # <<>>)
    /\ [][\/ files' = files
          \/ /\ files' = files \cup {join(scratch_dir, basename(pdf_file_name))}
             /\ run' = run]_vars

C7_Witness ==
    /\ run = 2
    /\ pc = "done"
    /\ Cardinality(files) = 2
    /\ join(scratch_dir, basename(pdf_file_name)) \in files

C9_StrictlySequential ==
    /\ inflight \in {0, 1}
    /\ pc \in {"convert", "loop", "done"} => inflight = 0
    /\ log # <<>> => log[1].op = "makedirs"
    /\ \A k \in 1..Len(log) :
        /\ log[k].op = "read" => k = 2
        /\ log[k].op = "open" => k = 3 /\ log[2].op = "read"
        /\ log[k].op = "convert" => k = 4 /\ log[3].op = "open"
        /\ log[k].op = "write" =>
               /\ k > 4 /\ log[4].op = "convert"
               /\ log[k - 1].op \in {"convert", "write_ok"}
        /\ log[k].op = "write_ok" =>
               k > 1 /\ log[k - 1].op = "write" /\ log[k - 1].path = log[k].path

C9_Witness ==
    /\ pc = "await_write"
    /\ inflight = 1
    /\ Len(generated_files) >= 1

\* C10: within a run the workspace paths written are pairwise distinct and
\* none equals the workspace path the input was read from.
C10_WritePathsDistinct ==
    \A j, k \in 1..Len(log) :
        /\ (log[j].op = "write" /\ log[k].op = "write" /\ j # k)
               => log[j].path # log[k].path
        /\ (log[j].op = "write" /\ log[k].op = "read")
               => log[j].path # log[k].path

C10_Witness ==
    /\ pc = "done"
    /\ Len(generated_files) >= 2
    /\ \E j, k \in 1..Len(log) :
           j # k /\ log[j].op = "write" /\ log[k].op = "write"

====
